---- MODULE Spec2Model ----
(***************************************************************************)
(* pyMIC OffloadArray (src/pymic/offload_array.py): the array handle, its  *)
(* owner/view lifecycle and its dispatch of commands to offload streams.   *)
(*                                                                         *)
(* A handle is a record of the attributes the class keeps.  A numpy array  *)
(* (the host mirror) is identified by the memory it lives in: two arrays   *)
(* over the same memory have the same identifier.  The stream is a         *)
(* collaborator outside offload_array.py; it is modelled from the          *)
(* interface the specification gives for it: buffers are keyed by host     *)
(* memory, and every stream is a FIFO queue of commands.                   *)
(***************************************************************************)
EXTENDS Integers, Sequences, FiniteSets, TLC

(* ------------------------------ bounds -------------------------------- *)
MaxHandles == 3        \* objects constructed in one run
LifeHandles == 2       \* objects the caller constructs in the lifecycle runs
MaxQueue == 2          \* commands pending on one stream
LifeCalls == 2         \* method calls in one run of the lifecycle runs
MaxCalls == 1          \* method calls in one run of the argument runs
MaxIndex == 3          \* slice indices run from -MaxIndex to MaxIndex

(* ----------------------- the environment ------------------------------ *)
None == 0
Devices == {1, 2}
Streams == {1, 2, 3}
\* OffloadStream.get_device(): streams 1 and 2 belong to device 1, stream 3 to device 2
get_device(s) == IF s = 3 THEN 2 ELSE 1

Hid == 1 .. MaxHandles
\* host memories: memory h is the one object h obtained from numpy.empty,
\* memory MaxHandles + h the one numpy.reshape had to copy into for view h
Mem == 1 .. (2 * MaxHandles)

(* ------------------------- element types ------------------------------ *)
DTypes == {"int64", "float64", "complex128", "int32"}
\* numpy.dtype(t) for a host-language type t, as used by dtype == int,
\* dtype != type(value): int is int64, float is float64, complex is complex128
numpy_dtype(t) ==
    CASE t = "int" -> "int64"
      [] t = "float" -> "float64"
      [] t = "complex" -> "complex128"
      [] OTHER -> t
\* host-language types a scalar argument can have
ScalarTypes == {"int", "float", "complex", "int32"}
Scalar(t, v) == [ty |-> t, v |-> v]
\* contents of memory nobody has written: an arbitrary value, equal to no
\* value the program writes
Junk == [ty |-> "junk", v |-> 0]
\* the value an arithmetic kernel leaves in its result (kernels are opaque)
Computed == [ty |-> "computed", v |-> 0]
Fill(n, e) == [i \in 1 .. n |-> e]

(* ----------------------------- shapes --------------------------------- *)
RECURSIVE Product(_)
Product(shape) == IF shape = <<>> THEN 1 ELSE Head(shape) * Product(Tail(shape))
\* a shape argument is a tuple of dimensions or a bare integer
TupleArg(dims) == [int |-> FALSE, dims |-> dims]
IntArg(n) == [int |-> TRUE, dims |-> <<n>>]
\* for d in shape: size *= d; except TypeError: size = shape; shape = (shape,)
shape_size(arg) == IF arg.int THEN arg.dims[1] ELSE Product(arg.dims)
shape_tuple(arg) == arg.dims
\* a numpy array is C-contiguous unless it was laid out column-major and has
\* at least two dimensions longer than one
CContiguous(order, shape) ==
    order = "C" \/ Cardinality({i \in DOMAIN shape : shape[i] > 1}) < 2
RECURSIVE Squeeze(_)
Squeeze(shape) ==
    IF shape = <<>> THEN <<>>
    ELSE IF Head(shape) = 1 THEN Squeeze(Tail(shape))
    ELSE <<Head(shape)>> \o Squeeze(Tail(shape))
\* numpy.ndarray.reshape(shape) (C index order) returns a view of the same
\* memory when the array is C-contiguous or the shape is unchanged up to
\* dimensions of length one, and a copy otherwise (exact for rank <= 2)
ReshapeShares(order, old, new) ==
    CContiguous(order, old) \/ Squeeze(old) = Squeeze(new)

(* ------------------------------ state --------------------------------- *)
VARIABLES
    handles,    \* Hid -> the attributes of each OffloadArray object
    host,       \* Mem -> contents of the host array in that memory (<<>>: none)
    dev,        \* Mem -> the device buffer keyed by that host memory
    queue,      \* Streams -> commands issued and not yet executed
    nalloc,     \* memory (or None) -> number of _buffer_allocate calls
    nrel,       \* memory (or None) -> number of _buffer_release calls
    last,       \* the call that made the last step, and how it ended
    calls       \* method calls made so far
vars == <<handles, host, dev, queue, nalloc, nrel, last, calls>>

NoHandle ==
    [st |-> "free", base |-> None, dtype |-> "", order |-> "", shape |-> <<>>,
     size |-> 0, array |-> None, aorder |-> "", device |-> None, stream |-> None]
NoBuffer == [st |-> "none", data |-> <<>>]
\* op: the method; h: the object it was called on (for a construction: the
\* object made); arg: the stream given to assign_stream; other: the operand
\* given; err: the exception raised, or "none"; ret: the handle returned, or
\* None; cmd: for a step of a stream, the command it executed
CallWith(op, h, arg, other, err, ret, cmd) ==
    [op |-> op, h |-> h, arg |-> arg, other |-> other, err |-> err, ret |-> ret,
     cmd |-> cmd]
NoOperand ==
    [kind |-> "none", hid |-> None, shape |-> <<>>, dtype |-> "", val |-> Junk]
Cmd(k, x, y, r, val, lb, ub, enc) ==
    [k |-> k, x |-> x, y |-> y, r |-> r, val |-> val, lb |-> lb, ub |-> ub,
     enc |-> enc]
NoEnc == <<>>
NoCmd == Cmd("none", None, None, None, Junk, 0, 0, NoEnc)
Call(op, h, arg, err, ret) == CallWith(op, h, arg, NoOperand, err, ret, NoCmd)
CallOn(op, h, other, err, ret) == CallWith(op, h, None, other, err, ret, NoCmd)
Executed(c, err) == CallWith("exec", None, None, NoOperand, err, None, c)

Live == {h \in Hid : handles[h].st = "live"}
\* the identifier the next constructed object gets
NewId == Cardinality({h \in Hid : handles[h].st # "free"}) + 1
Room(s) == Len(queue[s]) < MaxQueue
Enqueue(q, s, c) == [q EXCEPT ![s] = Append(@, c)]

Init ==
    /\ handles = [h \in Hid |-> NoHandle]
    /\ host = [m \in Mem |-> <<>>]
    /\ dev = [m \in Mem |-> NoBuffer]
    /\ queue = [s \in Streams |-> <<>>]
    /\ nalloc = [m \in {None} \cup Mem |-> 0]
    /\ nrel = [m \in {None} \cup Mem |-> 0]
    /\ last = Call("init", None, None, "none", None)
    /\ calls = 0

(* ------------------------- OffloadArray.__init__ ----------------------- *)
\* an object that is bound to a stream whatever __init__ had reached
Partial_bound(base, device, stream) ==
    [NoHandle EXCEPT !.st = "partial", !.base = base,
                     !.device = device, !.stream = 1]

\* the object as it is when __init__ raises: only the attributes assigned
\* before the raise are set, the others read as the class attributes (None)
Partial(base, device, stream) ==
    [NoHandle EXCEPT !.st = "partial", !.base = base,
                     !.device = device, !.stream = stream]

\* op names the call the construction is part of (the constructor itself,
\* reshape, a binary operator ...), for the record in last
Construct(op, shape, dtype, order, alloc_arr, base, device, stream) ==
    LET id == NewId
        size == shape_size(shape)
        dims == shape_tuple(shape)
        b == handles[base]
        built(array, aorder) ==
            [st |-> "live", base |-> base, dtype |-> dtype, order |-> order,
             shape |-> dims, size |-> size, array |-> array, aorder |-> aorder,
             device |-> device, stream |-> stream]
    IN
    /\ id <= MaxHandles
    /\ base = None \/ base \in Live
    /\ IF device = None \/ stream = None
       THEN \* assert device is not None / assert stream is not None
            /\ handles' = [handles EXCEPT ![id] = Partial(base, None, None)]
            /\ last' = Call(op, id, None, "AssertionError", None)
            /\ UNCHANGED <<host, dev, queue, nalloc, nrel>>
       ELSE IF base # None
       THEN IF b.array = None
            THEN \* base.array.reshape: base.array is None
                 /\ handles' = [handles EXCEPT ![id] = Partial(base, device, stream)]
                 /\ last' = Call(op, id, None, "AttributeError", None)
                 /\ UNCHANGED <<host, dev, queue, nalloc, nrel>>
            ELSE IF Product(dims) # b.size
            THEN \* numpy: cannot reshape array of size n into shape
                 /\ handles' = [handles EXCEPT ![id] = Partial(base, device, stream)]
                 /\ last' = Call(op, id, None, "ValueError", None)
                 /\ UNCHANGED <<host, dev, queue, nalloc, nrel>>
            ELSE IF ReshapeShares(b.aorder, b.shape, dims)
            THEN \* the view shares the memory of base.array
                 /\ handles' = [handles EXCEPT ![id] =
                        built(b.array, IF CContiguous(b.aorder, b.shape)
                                       THEN "C" ELSE b.aorder)]
                 /\ last' = Call(op, id, None, "none", id)
                 /\ UNCHANGED <<host, dev, queue, nalloc, nrel>>
            ELSE \* numpy copies: the new array lives in memory of its own
                 /\ handles' = [handles EXCEPT ![id] = built(MaxHandles + id, "C")]
                 /\ host' = [host EXCEPT ![MaxHandles + id] = host[b.array]]
                 /\ last' = Call(op, id, None, "none", id)
                 /\ UNCHANGED <<dev, queue, nalloc, nrel>>
       ELSE IF alloc_arr
       THEN \* numpy.empty, then stream._buffer_allocate(self.array)
            /\ handles' = [handles EXCEPT ![id] = built(id, order)]
            /\ host' = [host EXCEPT ![id] = Fill(size, Junk)]
            /\ dev' = [dev EXCEPT ![id] = [st |-> "alloc", data |-> Fill(size, Junk)]]
            /\ nalloc' = [nalloc EXCEPT ![id] = @ + 1]
            /\ last' = Call(op, id, None, "none", id)
            /\ UNCHANGED <<queue, nrel>>
       ELSE \* no array: self.array stays the class attribute None
            /\ handles' = [handles EXCEPT ![id] = built(None, "")]
            /\ last' = Call(op, id, None, "none", id)
            /\ UNCHANGED <<host, dev, queue, nalloc, nrel>>

(* ------------------------- OffloadArray.__del__ ------------------------ *)
\* the garbage collector finalizes an object once nothing refers to it; a
\* view refers to its base
Referenced(h) ==
    \E g \in Hid : handles[g].st \in {"live", "partial"} /\ handles[g].base = h

\* a finalizer that releases whether or not the object has a base
is_owner_any(o) == TRUE
\* if self.base is None
is_owner(o) == o.base = None

Destroy(h) ==
    LET o == handles[h] IN
    /\ o.st \in {"live", "partial"}
    /\ ~Referenced(h)
    \* what is kept of a finalized object, for the record: whether it had been
    \* constructed ("dead") or not ("gone"), and its base
    /\ handles' = [handles EXCEPT ![h] =
                      [NoHandle EXCEPT !.st = IF o.st = "live" THEN "dead" ELSE "gone",
                                       !.base = o.base]]
    \* the arrays this object created go with it
    /\ host' = [m \in Mem |-> IF m \in {h, MaxHandles + h} THEN <<>> ELSE host[m]]
    /\ IF ~is_owner(o)
       THEN /\ last' = Call("del", h, None, "none", None)
            /\ UNCHANGED <<dev, queue, nalloc, nrel>>
       ELSE IF o.stream = None
       THEN \* self.stream._buffer_release: self.stream is None
            /\ last' = Call("del", h, None, "AttributeError", None)
            /\ UNCHANGED <<dev, queue, nalloc, nrel>>
       ELSE /\ Room(o.stream)
            /\ queue' = Enqueue(queue, o.stream,
                                Cmd("release", o.array, None, None, Junk, 0, 0, NoEnc))
            /\ nrel' = [nrel EXCEPT ![o.array] = @ + 1]
            /\ last' = Call("del", h, None, "none", None)
            /\ UNCHANGED <<dev, nalloc>>

(* --------------------- OffloadArray.assign_stream ---------------------- *)
\* an assign_stream that rebinds before it checks the device
assign_stream_early(h, stream) ==
    /\ h \in Live
    /\ handles' = [handles EXCEPT ![h].stream = stream]
    /\ last' = Call("assign_stream", h, stream,
                    IF get_device(stream) # handles[h].device
                    THEN "ValueError" ELSE "none", None)
    /\ UNCHANGED <<host, dev, queue, nalloc, nrel>>

assign_stream(h, stream) ==
    /\ h \in Live
    /\ IF get_device(stream) # handles[h].device
       THEN /\ last' = Call("assign_stream", h, stream, "ValueError", None)
            /\ UNCHANGED <<handles, host, dev, queue, nalloc, nrel>>
       ELSE /\ handles' = [handles EXCEPT ![h].stream = stream]
            /\ last' = Call("assign_stream", h, stream, "none", None)
            /\ UNCHANGED <<host, dev, queue, nalloc, nrel>>

(* ------------------ update_device / update_host ------------------------ *)
update_device(h) ==
    LET a == handles[h] IN
    /\ h \in Live
    /\ Room(a.stream)
    /\ queue' = Enqueue(queue, a.stream,
                        Cmd("h2d", a.array, None, None, Junk, 0, 0, NoEnc))
    /\ last' = Call("update_device", h, None, "none", None)
    /\ UNCHANGED <<handles, host, dev, nalloc, nrel>>

\* an update_host that copies at once, not in the order of the stream
update_host_now(h) ==
    LET a == handles[h] IN
    /\ h \in Live
    /\ host' = [host EXCEPT ![a.array] = dev[a.array].data]
    /\ last' = Call("update_host", h, None, "none", h)
    /\ UNCHANGED <<handles, dev, queue, nalloc, nrel>>

update_host(h) ==
    LET a == handles[h] IN
    /\ h \in Live
    /\ Room(a.stream)
    /\ queue' = Enqueue(queue, a.stream,
                        Cmd("d2h", a.array, None, None, Junk, 0, 0, NoEnc))
    /\ last' = Call("update_host", h, None, "none", h)
    /\ UNCHANGED <<handles, host, dev, nalloc, nrel>>

(* ------------------------------ operands ------------------------------- *)
\* the right operand of an operator, the source of a slice assignment, the
\* argument of fillfrom: a handle, a foreign numpy array, or anything else
HandleOperand(o) ==
    [kind |-> "handle", hid |-> o, shape |-> <<>>, dtype |-> "", val |-> Junk]
ArrayOperand(shape, dtype) ==
    [kind |-> "ndarray", hid |-> None, shape |-> shape, dtype |-> dtype, val |-> Junk]
ScalarOperand(sc) ==
    [kind |-> "scalar", hid |-> None, shape |-> <<>>, dtype |-> "", val |-> sc]
\* contents of a foreign numpy array
Foreign == [ty |-> "foreign", v |-> 0]
\* map_data_types(dtype): the kernels' type tag
map_data_types(dtype) ==
    CASE dtype = "int64" -> 0
      [] dtype = "float64" -> 1
      [] dtype = "complex128" -> 2
      [] OTHER -> 3

(* --------------- __add__ / __sub__ / __mul__ / __pow__ ----------------- *)
\* checks that compare the shapes and forget the element types
operand_error_shape_only(a, other) ==
    CASE other.kind = "handle" ->
            IF a.array = None \/ handles[other.hid].array = None THEN "AttributeError"
            ELSE IF a.shape # handles[other.hid].shape THEN "ValueError"
            ELSE "none"
      [] other.kind = "ndarray" ->
            IF a.array = None THEN "AttributeError"
            ELSE IF a.shape # other.shape THEN "ValueError"
            ELSE "none"
      [] OTHER -> "none"

\* the checks of the three branches; self.array.shape is self.shape whenever
\* self.array is an array
operand_error(a, other) ==
    CASE other.kind = "handle" ->
            IF a.array = None \/ handles[other.hid].array = None THEN "AttributeError"
            ELSE IF a.shape # handles[other.hid].shape THEN "ValueError"
            ELSE IF a.dtype # handles[other.hid].dtype THEN "ValueError"
            ELSE "none"
      [] other.kind = "ndarray" ->
            IF a.array = None THEN "AttributeError"
            ELSE IF a.shape # other.shape THEN "ValueError"
            ELSE IF a.dtype # other.dtype THEN "ValueError"
            ELSE "none"
      [] OTHER ->
            IF a.dtype # numpy_dtype(other.val.ty) THEN "ValueError" ELSE "none"

\* an encoding that iterates over every right operand
encoding_dense(a, other) == <<a.size, 1, 1, 1>>

\* n, incx, incy, incr
encoding(a, other) ==
    <<a.size, 1, IF other.kind \in {"handle", "ndarray"} THEN 1 ELSE 0, 1>>

\* OffloadArray(shape, dtype, device=device, stream=stream): a new owner
Owner(dims, dtype, order, device, stream, id) ==
    [st |-> "live", base |-> None, dtype |-> dtype, order |-> order,
     shape |-> dims, size |-> Product(dims), array |-> id, aorder |-> order,
     device |-> device, stream |-> stream]
Allocated(n) == [st |-> "alloc", data |-> Fill(n, Junk)]

BinaryOp(kernel, h, other) ==
    LET a == handles[h]
        err == operand_error(a, other)
        id == NewId
        y == IF other.kind = "handle" THEN handles[other.hid].array ELSE None
    IN
    /\ h \in Live
    /\ other.kind = "handle" => other.hid \in Live
    /\ IF err # "none"
       THEN /\ last' = CallOn(kernel, h, other, err, None)
            /\ UNCHANGED <<handles, host, dev, queue, nalloc, nrel>>
       ELSE /\ id <= MaxHandles
            /\ Room(a.stream)
            /\ handles' = [handles EXCEPT ![id] =
                              Owner(a.shape, a.dtype, "C", a.device, a.stream, id)]
            /\ host' = [host EXCEPT ![id] = Fill(a.size, Junk)]
            /\ dev' = [dev EXCEPT ![id] = Allocated(a.size)]
            /\ nalloc' = [nalloc EXCEPT ![id] = @ + 1]
            /\ queue' = Enqueue(queue, a.stream,
                                Cmd(kernel, a.array, y, id, other.val, 0, 0,
                                    encoding(a, other)))
            /\ last' = CallOn(kernel, h, other, "none", id)
            /\ UNCHANGED nrel

__add__(h, other) == BinaryOp("add", h, other)
__sub__(h, other) == BinaryOp("sub", h, other)
__mul__(h, other) == BinaryOp("mul", h, other)
__pow__(h, other) == BinaryOp("pow", h, other)

(* ------------------------- fill / zero / one --------------------------- *)
\* a fill that invokes the kernel before it checks the type of the value
fill_as_unchecked(op, h, given, value) ==
    LET a == handles[h] IN
    /\ Room(a.stream)
    /\ queue' = Enqueue(queue, a.stream,
                        Cmd("fill", a.array, None, None, value, 0, 0, <<a.size>>))
    /\ last' = CallOn(op, h, given,
                      IF a.dtype # numpy_dtype(value.ty) THEN "ValueError" ELSE "none",
                      IF op = "setslice" \/ a.dtype # numpy_dtype(value.ty)
                      THEN None ELSE h)
    /\ UNCHANGED <<handles, host, dev, nalloc, nrel>>

\* a fill that writes the value into the host array as well
fill_as_eager(op, h, given, value) ==
    LET a == handles[h] IN
    IF a.dtype # numpy_dtype(value.ty)
    THEN /\ last' = CallOn(op, h, given, "ValueError", None)
         /\ UNCHANGED <<handles, host, dev, queue, nalloc, nrel>>
    ELSE /\ Room(a.stream)
         /\ queue' = Enqueue(queue, a.stream,
                             Cmd("fill", a.array, None, None, value, 0, 0,
                                 <<a.size>>))
         /\ host' = [host EXCEPT ![a.array] = Fill(a.size, value)]
         /\ last' = CallOn(op, h, given, "none", IF op = "setslice" THEN None ELSE h)
         /\ UNCHANGED <<handles, dev, nalloc, nrel>>

\* the body of fill, reported as call op (fill itself, zero, one, setslice)
\* with the argument given to that call
fill_as(op, h, given, value) ==
    LET a == handles[h] IN
    IF a.dtype # numpy_dtype(value.ty)
    THEN /\ last' = CallOn(op, h, given, "ValueError", None)
         /\ UNCHANGED <<handles, host, dev, queue, nalloc, nrel>>
    ELSE /\ Room(a.stream)
         /\ queue' = Enqueue(queue, a.stream,
                             Cmd("fill", a.array, None, None, value, 0, 0,
                                 <<a.size>>))
         /\ last' = CallOn(op, h, given, "none", IF op = "setslice" THEN None ELSE h)
         /\ UNCHANGED <<handles, host, dev, nalloc, nrel>>

fill(h, value) == h \in Live /\ fill_as("fill", h, ScalarOperand(value), value)

NoValue == [ty |-> "None", v |-> 0]
\* the identity zero() picks, or the error of its last branch
zero_value(dtype) ==
    IF dtype = numpy_dtype("int") THEN Scalar("int", 0)
    ELSE IF dtype = numpy_dtype("float") THEN Scalar("float", 0)
    ELSE IF dtype = numpy_dtype("complex") THEN Scalar("complex", 0)
    ELSE [ty |-> "ValueError", v |-> 0]
\* one()'s last branch formats the undefined name dtype
one_value(dtype) ==
    IF dtype = numpy_dtype("int") THEN Scalar("int", 1)
    ELSE IF dtype = numpy_dtype("float") THEN Scalar("float", 1)
    ELSE IF dtype = numpy_dtype("complex") THEN Scalar("complex", 1)
    ELSE [ty |-> "NameError", v |-> 0]
Errors == {"ValueError", "NameError", "TypeError", "AttributeError", "AssertionError"}

zero(h, value) ==
    LET v == IF value = NoValue THEN zero_value(handles[h].dtype) ELSE value
        given == IF value = NoValue THEN NoOperand ELSE ScalarOperand(value)
    IN
    /\ h \in Live
    /\ IF v.ty \in Errors
       THEN /\ last' = CallOn("zero", h, given, v.ty, None)
            /\ UNCHANGED <<handles, host, dev, queue, nalloc, nrel>>
       ELSE fill_as("zero", h, given, v)

one(h, value) ==
    LET v == IF value = NoValue THEN one_value(handles[h].dtype) ELSE value
        given == IF value = NoValue THEN NoOperand ELSE ScalarOperand(value)
    IN
    /\ h \in Live
    /\ IF v.ty \in Errors
       THEN /\ last' = CallOn("one", h, given, v.ty, None)
            /\ UNCHANGED <<handles, host, dev, queue, nalloc, nrel>>
       ELSE fill_as("one", h, given, v)

(* ------------------------------ fillfrom ------------------------------- *)
\* a fillfrom that does not compare the shapes
fillfrom_any_shape(h, array) ==
    LET a == handles[h] IN
    /\ h \in Live
    /\ array.kind = "handle" => array.hid \in Live
    /\ IF array.kind # "ndarray" \/ a.array = None
       THEN /\ last' = CallOn("fillfrom", h, array, "TypeError", None)
            /\ UNCHANGED <<handles, host, dev, queue, nalloc, nrel>>
       ELSE /\ Room(a.stream)
            /\ host' = [host EXCEPT ![a.array] = Fill(a.size, Foreign)]
            /\ queue' = Enqueue(queue, a.stream,
                                Cmd("h2d", a.array, None, None, Junk, 0, 0, NoEnc))
            /\ last' = CallOn("fillfrom", h, array, "none", h)
            /\ UNCHANGED <<handles, dev, nalloc, nrel>>

fillfrom(h, array) ==
    LET a == handles[h] IN
    /\ h \in Live
    /\ array.kind = "handle" => array.hid \in Live
    /\ IF array.kind # "ndarray" \/ a.shape # array.shape \/ a.array = None
       THEN \* not an ndarray; shapes differ; None does not support item assignment
            /\ last' = CallOn("fillfrom", h, array, "TypeError", None)
            /\ UNCHANGED <<handles, host, dev, queue, nalloc, nrel>>
       ELSE \* self.array[:] = array[:], then update_device()
            /\ Room(a.stream)
            /\ host' = [host EXCEPT ![a.array] = Fill(a.size, Foreign)]
            /\ queue' = Enqueue(queue, a.stream,
                                Cmd("h2d", a.array, None, None, Junk, 0, 0, NoEnc))
            /\ last' = CallOn("fillfrom", h, array, "none", h)
            /\ UNCHANGED <<handles, dev, nalloc, nrel>>

(* ------------------------- reverse / __abs__ --------------------------- *)
\* stream.empty / stream.empty_like: a new owner on the stream
FromStream(op, h, kernel, dtype) ==
    LET a == handles[h]
        id == NewId
    IN
    /\ id <= MaxHandles
    /\ Room(a.stream)
    /\ handles' = [handles EXCEPT ![id] =
                      Owner(a.shape, dtype, a.order, get_device(a.stream), a.stream, id)]
    /\ host' = [host EXCEPT ![id] = Fill(a.size, Junk)]
    /\ dev' = [dev EXCEPT ![id] = Allocated(a.size)]
    /\ nalloc' = [nalloc EXCEPT ![id] = @ + 1]
    /\ queue' = Enqueue(queue, a.stream,
                        Cmd(kernel, a.array, None, id, Junk, 0, 0, <<a.size>>))
    /\ last' = Call(op, h, None, "none", id)
    /\ UNCHANGED nrel

reverse(h) ==
    /\ h \in Live
    /\ IF Len(handles[h].shape) > 1
       THEN /\ last' = Call("reverse", h, None, "ValueError", None)
            /\ UNCHANGED <<handles, host, dev, queue, nalloc, nrel>>
       ELSE IF handles[h].array = None
       THEN \* self.array.size: self.array is None
            /\ last' = Call("reverse", h, None, "AttributeError", None)
            /\ UNCHANGED <<handles, host, dev, queue, nalloc, nrel>>
       ELSE FromStream("reverse", h, "reverse", handles[h].dtype)

\* an abs whose result always has the element type of self
abs_same_dtype(h) ==
    /\ h \in Live
    /\ IF handles[h].array = None
       THEN /\ last' = Call("abs", h, None, "AttributeError", None)
            /\ UNCHANGED <<handles, host, dev, queue, nalloc, nrel>>
       ELSE FromStream("abs", h, "abs", handles[h].dtype)

__abs__(h) ==
    /\ h \in Live
    /\ IF handles[h].array = None
       THEN /\ last' = Call("abs", h, None, "AttributeError", None)
            /\ UNCHANGED <<handles, host, dev, queue, nalloc, nrel>>
       ELSE FromStream("abs", h, "abs",
                       IF map_data_types(handles[h].dtype) = 2
                       THEN numpy_dtype("float") ELSE handles[h].dtype)

(* -------------------------- reshape / ravel ---------------------------- *)
\* a reshape that leaves the comparison of the sizes to the constructor
reshape_as_unchecked(op, h, dims) ==
    LET a == handles[h] IN
    /\ h \in Live
    /\ Construct(op, TupleArg(dims), a.dtype, a.order, FALSE, h, a.device, None)

\* reshape(*shape) with shape the dimensions given; op is "reshape" or "ravel"
reshape_as(op, h, dims) ==
    LET a == handles[h] IN
    /\ h \in Live
    /\ IF Product(dims) # a.size
       THEN /\ last' = Call(op, h, None, "ValueError", None)
            /\ UNCHANGED <<handles, host, dev, queue, nalloc, nrel>>
       ELSE \* OffloadArray(shape, self.dtype, self.order, False, self,
            \*              device=self.device): no stream is passed
            Construct(op, TupleArg(dims), a.dtype, a.order, FALSE, h, a.device, None)

reshape(h, dims) == reshape_as("reshape", h, dims)
ravel(h) == reshape_as("ravel", h, <<handles[h].size>>)

(* ----------------------------- __setslice__ ---------------------------- *)
Min(a, b) == IF a < b THEN a ELSE b
slice_lb(i, size) == Min(i, size)
slice_ub(j, size) == Min(j, size)

__setslice__(h, i, j, sequence) ==
    LET a == handles[h]
        lb == slice_lb(i, a.size)
        ub == slice_ub(j, a.size)
    IN
    /\ h \in Live
    /\ sequence.kind = "handle" => sequence.hid \in Live
    /\ IF sequence.kind = "handle"
       THEN /\ Room(a.stream)
            /\ queue' = Enqueue(queue, a.stream,
                                Cmd("setslice", a.array, handles[sequence.hid].array,
                                    None, Junk, lb, ub, NoEnc))
            /\ last' = CallOn("setslice", h, sequence, "none", None)
            /\ UNCHANGED <<handles, host, dev, nalloc, nrel>>
       ELSE IF sequence.kind = "ndarray"
       THEN \* stream.bind(sequence): the stream's own transient handle
            /\ Room(a.stream)
            /\ queue' = Enqueue(queue, a.stream,
                                Cmd("setslice", a.array, None, None, Foreign,
                                    lb, ub, NoEnc))
            /\ last' = CallOn("setslice", h, sequence, "none", None)
            /\ UNCHANGED <<handles, host, dev, nalloc, nrel>>
       ELSE fill_as("setslice", h, sequence, sequence.val)

(* --------------------- the stream executes a command ------------------- *)
\* the memories whose device buffer a command uses
Refs(c) == {c.x, c.y, c.r} \ {None}
Released(m) == dev[m].st = "released"
\* elements lb .. ub-1 (counted from 0) of data replaced by those of src
Assigned(data, lb, ub, src) ==
    [i \in DOMAIN data |->
        IF lb <= i - 1 /\ i - 1 < ub
        THEN IF i - lb \in DOMAIN src THEN src[i - lb] ELSE Junk
        ELSE data[i]]
Reverse(data) == [i \in DOMAIN data |-> data[Len(data) + 1 - i]]

Exec(s) ==
    LET c == Head(queue[s])
        ok == \A m \in Refs(c) : dev[m].st = "alloc"
    IN
    /\ queue[s] # <<>>
    /\ queue' = [queue EXCEPT ![s] = Tail(@)]
    /\ UNCHANGED <<handles, nalloc, nrel>>
    /\ IF \E m \in Refs(c) : Released(m)
       THEN /\ last' = Executed(c, "UseAfterFree")
            /\ UNCHANGED <<host, dev>>
       ELSE IF ~ok \/ c.x = None
       THEN \* a buffer that was never allocated
            /\ last' = Executed(c, "NoBuffer")
            /\ UNCHANGED <<host, dev>>
       ELSE
       /\ last' = Executed(c, "none")
       /\ CASE c.k = "release" ->
                 /\ dev' = [dev EXCEPT ![c.x] = [st |-> "released", data |-> <<>>]]
                 /\ UNCHANGED host
            [] c.k = "h2d" ->
                 /\ dev' = [dev EXCEPT ![c.x].data =
                               IF host[c.x] = <<>> THEN @ ELSE host[c.x]]
                 /\ UNCHANGED host
            [] c.k = "d2h" ->
                 /\ host' = [host EXCEPT ![c.x] =
                                IF @ = <<>> THEN @ ELSE dev[c.x].data]
                 /\ UNCHANGED dev
            [] c.k = "fill" ->
                 /\ dev' = [dev EXCEPT ![c.x].data =
                               [i \in DOMAIN @ |-> IF i <= c.enc[1] THEN c.val ELSE @[i]]]
                 /\ UNCHANGED host
            [] c.k = "setslice" ->
                 /\ dev' = [dev EXCEPT ![c.x].data =
                               Assigned(@, c.lb, c.ub,
                                        IF c.y = None THEN Fill(Len(@), c.val)
                                        ELSE dev[c.y].data)]
                 /\ UNCHANGED host
            [] c.k = "reverse" ->
                 /\ dev' = [dev EXCEPT ![c.r].data = Reverse(dev[c.x].data)]
                 /\ UNCHANGED host
            [] OTHER ->
                 /\ dev' = [dev EXCEPT ![c.r].data = Fill(Len(@), Computed)]
                 /\ UNCHANGED host

(* ------------------------------ inputs -------------------------------- *)
Orders == {"C", "F"}
\* one more method call fits the run
Counted == calls < MaxCalls /\ calls' = calls + 1

(* lifecycle and streams: every interleaving of calls and executions *)
CountedLife == calls < LifeCalls /\ calls' = calls + 1
LifeShapes == {TupleArg(<<2>>)}
\* (device, stream) arguments of the constructor
LifeBindings == {<<None, 1>>, <<1, None>>, <<1, 1>>, <<1, 2>>}
LifeValues == {Scalar("float", 1)}

Next ==
    \/ \E shape \in LifeShapes, alloc_arr \in BOOLEAN,
          base \in {None} \cup Hid, b \in LifeBindings :
          /\ NewId <= LifeHandles
          /\ Construct("init", shape, "float64", "C", alloc_arr, base, b[1], b[2])
          /\ UNCHANGED calls
    \/ \E h \in Hid : Destroy(h) /\ UNCHANGED calls
    \/ \E h \in Hid, s \in Streams : assign_stream(h, s) /\ CountedLife
    \/ \E h \in Hid, v \in LifeValues : fill(h, v) /\ CountedLife
    \/ \E h \in Hid : update_host(h) /\ CountedLife
    \/ \E s \in Streams : Exec(s) /\ UNCHANGED calls

Spec == Init /\ [][Next]_vars

(* aliasing: views over one buffer, both layouts, one stream *)
ViewShapes == {TupleArg(<<4>>), TupleArg(<<2, 2>>)}

NextView ==
    \/ \E shape \in ViewShapes, order \in Orders, base \in {None} \cup Hid :
          /\ NewId <= LifeHandles
          /\ Construct("init", shape, "float64", order, TRUE, base, 1, 1)
          /\ UNCHANGED calls
    \/ \E h \in Hid, v \in LifeValues : fill(h, v) /\ UNCHANGED calls
    \/ \E h \in Hid : update_host(h) /\ UNCHANGED calls
    \/ \E s \in Streams : Exec(s) /\ UNCHANGED calls

SpecView == Init /\ [][NextView]_vars

(* validation and dispatch: one method call on freshly constructed handles *)
Once == calls = 0 /\ calls' = 1
OpsShapes == {TupleArg(<<2>>), TupleArg(<<1, 2>>), IntArg(2)}
OpsDims == {<<2>>, <<1, 2>>, <<3>>}
OpsTypes == {"float64", "int32"}
OpsScalars == {Scalar("float", 1), Scalar("int32", 1)}
Operands ==
    {HandleOperand(o) : o \in Hid}
    \cup {ArrayOperand(d, t) : d \in {<<2>>, <<1, 2>>}, t \in OpsTypes}
    \cup {ScalarOperand(sc) : sc \in OpsScalars}

NextOps ==
    \/ \E shape \in OpsShapes, dtype \in OpsTypes, s \in {1, 2} :
          /\ NewId <= LifeHandles
          /\ Construct("init", shape, dtype, "C", TRUE, None, 1, s)
          /\ UNCHANGED calls
    \/ \E s \in Streams : Exec(s) /\ UNCHANGED calls
    \/ \E h \in Hid, other \in Operands : __add__(h, other) /\ Once
    \/ \E h \in Hid, other \in Operands : __sub__(h, other) /\ Once
    \/ \E h \in Hid, other \in Operands : __mul__(h, other) /\ Once
    \/ \E h \in Hid, other \in Operands : __pow__(h, other) /\ Once
    \/ \E h \in Hid, v \in OpsScalars : fill(h, v) /\ Once
    \/ \E h \in Hid, v \in {NoValue} \cup OpsScalars : zero(h, v) /\ Once
    \/ \E h \in Hid, v \in {NoValue} \cup OpsScalars : one(h, v) /\ Once
    \/ \E h \in Hid, a \in Operands : fillfrom(h, a) /\ Once
    \/ \E h \in Hid, dims \in OpsDims : reshape(h, dims) /\ Once
    \/ \E h \in Hid : ravel(h) /\ Once
    \/ \E h \in Hid : reverse(h) /\ Once
    \/ \E h \in Hid, s \in {2, 3} : assign_stream(h, s) /\ Once
    \/ \E h \in Hid, sc \in OpsScalars :
          __setslice__(h, 0, 1, ScalarOperand(sc)) /\ Once

SpecOps == Init /\ [][NextOps]_vars

(* arguments: every element type, every pair of slice bounds, one handle *)
Indices == (0 - MaxIndex) .. MaxIndex
Sources ==
    {HandleOperand(1), ArrayOperand(<<2>>, "float64"),
     ScalarOperand(Scalar("float", 1))}

NextArgs ==
    \/ \E dtype \in DTypes :
          /\ NewId = 1
          /\ Construct("init", TupleArg(<<2>>), dtype, "C", TRUE, None, 1, 1)
          /\ UNCHANGED calls
    \/ \E s \in Streams : Exec(s) /\ UNCHANGED calls
    \/ \E h \in Hid, v \in {NoValue, Scalar("int", 0)} : zero(h, v) /\ Counted
    \/ \E h \in Hid, v \in {NoValue, Scalar("int", 1)} : one(h, v) /\ Counted
    \/ \E h \in Hid, i \in Indices, j \in Indices, src \in Sources :
          __setslice__(h, i, j, src) /\ Counted

SpecArgs == Init /\ [][NextArgs]_vars

(* results from the stream: reverse and abs on one handle of any rank *)
RankShapes ==
    {TupleArg(<<>>), TupleArg(<<2>>), TupleArg(<<1, 2>>), TupleArg(<<2, 2>>)}

NextRank ==
    \/ \E shape \in RankShapes, dtype \in DTypes, s \in {1, 2} :
          /\ NewId = 1
          /\ Construct("init", shape, dtype, "C", TRUE, None, 1, s)
          /\ UNCHANGED calls
    \/ \E s \in Streams : Exec(s) /\ UNCHANGED calls
    \/ \E h \in Hid : reverse(h) /\ Counted
    \/ \E h \in Hid : __abs__(h) /\ Counted

SpecRank == Init /\ [][NextRank]_vars

(* order on a stream: the caller runs  first; h.one(); h.update_host()  on
   one handle, first being h.zero(), h.fill(v) or h.update_device(), while
   the streams execute what was issued *)
OrderShapes == {TupleArg(<<1>>), TupleArg(<<2>>), IntArg(3)}
OrderValues == {Scalar(t, 7) : t \in ScalarTypes}
\* the caller's position: statements executed so far
First == calls = 0 /\ calls' = 1
Second == calls = 1 /\ calls' = 2
Third == calls = 2 /\ calls' = 3

NextOrder ==
    \/ \E shape \in OrderShapes, dtype \in DTypes, s \in {1, 2} :
          /\ NewId = 1
          /\ Construct("init", shape, dtype, "C", TRUE, None, 1, s)
          /\ UNCHANGED calls
    \/ \E s \in Streams : Exec(s) /\ UNCHANGED calls
    \/ \E h \in Hid : zero(h, NoValue) /\ First
    \/ \E h \in Hid, v \in OrderValues : fill(h, v) /\ First
    \/ \E h \in Hid : update_device(h) /\ First
    \/ \E h \in Hid : one(h, NoValue) /\ Second
    \/ \E h \in Hid : update_host(h) /\ Third

SpecOrder == Init /\ [][NextOrder]_vars

(* ======================= lifecycle and streams ========================= *)
ReleaseOf(array) == Cmd("release", array, None, None, Junk, 0, 0, NoEnc)

\* the step finalizes an object whose construction had succeeded
DestroysHandle == last'.op = "del" /\ handles[last'.h].st = "live"

DestroyStep ==
    DestroysHandle =>
        LET o == handles[last'.h] IN
        IF o.base = None
        THEN /\ queue' = Enqueue(queue, o.stream, ReleaseOf(o.array))
             /\ nrel' = [nrel EXCEPT ![o.array] = @ + 1]
        ELSE /\ queue' = queue
             /\ nrel' = nrel

\* a buffer obtained for object m has been released once if m is gone and
\* not at all otherwise
ReleasedWithOwner ==
    \A m \in Hid :
        nalloc[m] = 1 => nrel[m] = (IF handles[m].st = "dead" THEN 1 ELSE 0)

\* C1: finalizing a handle without base issues exactly one _buffer_release,
\* for its array and on the stream it is bound to at that time; finalizing
\* a view issues none; so every buffer is released exactly once, when its
\* owner is finalized.
C1_ReleaseOnceByOwner == []ReleasedWithOwner /\ [][DestroyStep]_vars

\* an owner and its view have both been finalized: one release in all
C1_Witness ==
    \E b \in Hid, v \in Hid :
        /\ handles[b].st = "dead" /\ nalloc[b] = 1 /\ nrel[b] = 1
        /\ handles[v].st = "dead" /\ handles[v].base = b
        /\ \A m \in {None} \cup Mem : m # b => nrel[m] = 0

\* C2 (first part): every handle without base holds an array for which
\* _buffer_allocate was called exactly once.
OwnersAllocated ==
    \A h \in Live :
        handles[h].base = None =>
            handles[h].array # None /\ nalloc[handles[h].array] = 1

\* C2 (second part): a release issued by a finalizer is for an array that
\* was allocated and not yet released.
ReleaseOfAllocated ==
    (DestroysHandle /\ handles[last'.h].base = None) =>
        LET array == handles[last'.h].array IN
        array # None /\ nalloc[array] = 1 /\ nrel[array] = 0

\* C2: in every reachable state every handle whose base is unset holds a
\* host mirror allocated exactly once at construction, and every release at
\* destruction is for a mirror allocated and not yet released, whatever the
\* constructor arguments alloc_arr and base were.
C2_OwnerHoldsAllocatedMirror == []OwnersAllocated /\ [][ReleaseOfAllocated]_vars

\* C4: with every stream a FIFO queue, no command that uses a device buffer
\* is executed after the release of that buffer has been executed.
C4_NoUseAfterRelease == last.err # "UseAfterFree"

\* C7: assign_stream(s) rebinds the handle to s exactly when s's device is
\* the handle's device and raises ValueError otherwise, leaving the binding
\* as it was; either way no command is enqueued and no buffer is allocated,
\* released or changed.
AssignStep ==
    last'.op = "assign_stream" =>
        LET h == last'.h
            s == last'.arg
            same == get_device(s) = handles[h].device
        IN
        /\ last'.err = (IF same THEN "none" ELSE "ValueError")
        /\ handles' = [handles EXCEPT
                          ![h].stream = IF same THEN s ELSE handles[h].stream]
        /\ UNCHANGED <<host, dev, queue, nalloc, nrel>>
C7_AssignStream == [][AssignStep]_vars

\* a handle was rebound while a command of its is pending on the old stream
C7_Witness ==
    /\ last.op = "assign_stream" /\ last.err = "none"
    /\ \E s \in Streams :
          /\ s # handles[last.h].stream
          /\ \E k \in DOMAIN queue[s] : queue[s][k].x = handles[last.h].array

(* ============================== aliasing =============================== *)
\* the step executes an update_host right after a fill was executed
FillThenUpdate ==
    /\ last.op = "exec" /\ last.cmd.k = "fill"
    /\ last'.op = "exec" /\ last'.cmd.k = "d2h"

ViewFillStep ==
    FillThenUpdate =>
        \A v \in Live :
            LET b == handles[v].base IN
            (/\ b # None
             /\ handles[v].array = last.cmd.x
             /\ handles[b].array = last'.cmd.x)
            => \A w \in Live :
                  (w = b \/ handles[w].base = b) =>
                      host'[handles[w].array] = Fill(handles[b].size, last.cmd.val)

\* C8: a fill issued through a view v of b acts on b's buffer: once v.fill(x)
\* and then b.update_host() have been executed, every element of b's host
\* mirror is x, and so is every element seen through any view of b.
C8_FillThroughView == [][ViewFillStep]_vars

(* ======================= validation and dispatch ======================= *)
\* C3: a reshape (or ravel) whose new shape has the size of the handle
\* succeeds and returns a new view of the handle, with nothing allocated;
\* no assertion of the constructor fails.
C3_ReshapeReturnsView ==
    (last.op \in {"reshape", "ravel"} /\ last.err # "ValueError") =>
        /\ last.err = "none"
        /\ last.ret # None
        /\ handles[last.ret].st = "live"
        /\ handles[last.ret].base \in Live
        /\ nalloc[last.ret] = 0

Methods ==
    {"add", "sub", "mul", "pow", "fill", "zero", "one", "fillfrom", "reshape",
     "ravel", "reverse", "assign_stream", "setslice"}

\* the step is a method call that raised
Raises == last'.op \in Methods /\ last'.err # "none"

RaiseStep ==
    Raises =>
        /\ UNCHANGED <<host, dev, queue, nalloc, nrel>>
        /\ \A h \in Hid :
              /\ handles[h].st = "live" => handles'[h] = handles[h]
              /\ handles'[h].st = "live" => handles[h].st = "live"

\* C5: a call of a binary operator, fill, zero, one, fillfrom, reshape,
\* reverse, assign_stream or setslice (scalar source) that raises has issued
\* no allocation, transfer or kernel on any stream, has created no handle,
\* and has left every existing handle as it was.
C5_RaiseLeavesNoTrace == [][RaiseStep]_vars

\* an operator rejected a handle operand of another element type
C5_Witness ==
    /\ last.op = "add" /\ last.err = "ValueError"
    /\ last.other.kind = "handle"
    /\ last.other.hid # last.h
    /\ handles[last.other.hid].shape = handles[last.h].shape
    /\ handles[last.other.hid].dtype # handles[last.h].dtype

Operators == {"add", "sub", "mul", "pow"}

\* the operand is one the operator's contract accepts
Valid(a, other) ==
    CASE other.kind = "handle" ->
            /\ handles[other.hid].shape = a.shape
            /\ handles[other.hid].dtype = a.dtype
      [] other.kind = "ndarray" -> other.shape = a.shape /\ other.dtype = a.dtype
      [] OTHER -> numpy_dtype(other.val.ty) = a.dtype

OperatorStep ==
    last'.op \in Operators =>
        LET h == last'.h
            a == handles[h]
            r == last'.ret
        IN
        IF ~Valid(a, last'.other) THEN last'.err # "none"
        ELSE
        /\ last'.err = "none"
        /\ r \in Hid /\ handles[r].st = "free"
        \* one new owner like self
        /\ handles'[r].st = "live" /\ handles'[r].base = None
        /\ handles'[r].shape = a.shape /\ handles'[r].dtype = a.dtype
        /\ handles'[r].device = a.device /\ handles'[r].stream = a.stream
        /\ handles'[r].array \notin {None} \cup {handles[g].array : g \in Hid}
        /\ nalloc' = [nalloc EXCEPT ![handles'[r].array] = @ + 1]
        /\ nrel' = nrel
        \* one kernel on the stream of self
        /\ LET q == queue'[a.stream] IN
           /\ q # <<>>
           /\ q[Len(q)].k = last'.op
           /\ queue' = Enqueue(queue, a.stream, q[Len(q)])
        \* self, other and every other handle and buffer as before
        /\ \A g \in Hid \ {r} : handles'[g] = handles[g]
        /\ \A m \in Mem \ {handles'[r].array} : host'[m] = host[m] /\ dev'[m] = dev[m]

\* C6: add, subtract, multiply and power applied to a valid operand allocate
\* exactly one new owner with the shape, type, device and stream of self,
\* enqueue exactly one kernel on the stream of self, return the new handle,
\* and leave self and other unchanged.
C6_OperatorFrame == [][OperatorStep]_vars

\* the sum of two distinct handles was dispatched
C6_Witness ==
    /\ last.op = "add" /\ last.err = "none"
    /\ last.other.kind = "handle" /\ last.other.hid # last.h
    /\ last.ret \notin {None, last.h, last.other.hid}
    /\ handles[last.ret].st = "live"

(* ============================== arguments ============================== *)
Known == {numpy_dtype("int"), numpy_dtype("float"), numpy_dtype("complex")}
\* the command a call has just enqueued on the stream of its handle
Issued(h) == queue[handles[h].stream][Len(queue[handles[h].stream])]
Identity(op, dtype) ==
    Scalar(CASE dtype = numpy_dtype("int") -> "int"
             [] dtype = numpy_dtype("float") -> "float"
             [] OTHER -> "complex",
           IF op = "zero" THEN 0 ELSE 1)

\* C9: without a value argument, zero() and one() on a handle of a type with
\* no known identity both raise ValueError and enqueue nothing; on an
\* integer, float or complex handle they fill with 0 and 1 of that type.
C9_ZeroOneIdentity ==
    (last.op \in {"zero", "one"} /\ last.other = NoOperand) =>
        IF handles[last.h].dtype \in Known
        THEN /\ last.err = "none"
             /\ Issued(last.h).k = "fill"
             /\ Issued(last.h).val = Identity(last.op, handles[last.h].dtype)
        ELSE /\ last.err = "ValueError"
             /\ queue[handles[last.h].stream] = <<>>

FromStreamStep(a, r, k, dtype) ==
    /\ r \in Hid /\ handles[r].st = "free"
    /\ handles'[r].st = "live" /\ handles'[r].base = None
    /\ handles'[r].shape = a.shape /\ handles'[r].dtype = dtype
    /\ handles'[r].array \notin {None} \cup {handles[g].array : g \in Hid}
    /\ nalloc' = [nalloc EXCEPT ![handles'[r].array] = @ + 1]
    /\ nrel' = nrel
    /\ LET q == queue'[a.stream] IN
       /\ q # <<>>
       /\ q[Len(q)].k = k
       /\ q[Len(q)].x = a.array
       /\ q[Len(q)].r = handles'[r].array
       /\ queue' = Enqueue(queue, a.stream, q[Len(q)])
    /\ \A g \in Hid \ {r} : handles'[g] = handles[g]
    /\ \A m \in Mem \ {handles'[r].array} : host'[m] = host[m] /\ dev'[m] = dev[m]

ReverseStep ==
    last'.op = "reverse" =>
        LET a == handles[last'.h] IN
        IF Len(a.shape) # 1
        THEN /\ last'.err = "ValueError"
             /\ UNCHANGED <<handles, host, dev, queue, nalloc, nrel>>
        ELSE /\ last'.err = "none"
             /\ FromStreamStep(a, last'.ret, "reverse", a.dtype)

\* C11: reverse() on a handle whose shape is not exactly one-dimensional
\* raises ValueError before any allocation or kernel; on a one-dimensional
\* handle it allocates one result of the same shape and type, enqueues one
\* reverse kernel on the handle's stream and leaves self unchanged.
C11_ReverseRankOne == [][ReverseStep]_vars

(* ============================== reshape ================================ *)
ReshapeMismatchStep ==
    \A h \in Hid, dims \in OpsDims :
        (h \in Live /\ Product(dims) # handles[h].size /\ reshape(h, dims)) =>
            /\ last'.err = "ValueError"
            /\ last'.ret = None
            /\ UNCHANGED <<handles, host, dev, queue, nalloc, nrel>>

\* C12: reshape to a shape whose product differs from self.size raises
\* ValueError, creates no handle, issues no stream command and leaves the
\* shape, size and host mirror of self unchanged.
C12_ReshapeMismatch == [][ReshapeMismatchStep]_vars

\* a reshape to three elements was refused on a handle of two
C12_Witness ==
    /\ last.op = "reshape" /\ last.err = "ValueError"
    /\ last.h \in Live /\ handles[last.h].size = 2
    /\ handles[last.h].shape \in {<<2>>, <<1, 2>>}
    /\ \A g \in Hid : handles[g].st \in {"live", "free"}
    /\ \A s \in Streams : queue[s] = <<>>

(* ======================== failed construction ========================== *)
\* an object whose constructor failed one of its two assertions: neither
\* self.device nor self.stream was assigned
Unbound(o) == o.st = "partial" /\ o.device = None

NullConstructStep ==
    /\ last'.op = "init" =>
          \A shape \in LifeShapes, alloc_arr \in BOOLEAN, base \in {None} \cup Hid,
             b \in LifeBindings :
             ((b[1] = None \/ b[2] = None)
                /\ Construct("init", shape, "float64", "C", alloc_arr, base, b[1], b[2])) =>
                   /\ last'.err = "AssertionError"
                   /\ last'.ret = None
                   /\ Unbound(handles'[last'.h])
                   /\ UNCHANGED <<host, dev, queue, nalloc, nrel>>
    /\ last'.op = "del" =>
          \A h \in Hid :
              (Unbound(handles[h]) /\ Destroy(h)) =>
                  UNCHANGED <<dev, queue, nalloc, nrel>>

\* C13: constructing a handle with device None or stream None fails, calls
\* no _buffer_allocate, and leads to no _buffer_release on any stream,
\* neither in the failing call nor when the object is finalized later.
C13_NullConstruct == [][NullConstructStep]_vars

\* an object made without a stream, and without base, has been finalized
C13_Witness ==
    /\ last.op = "del"
    /\ handles[last.h].st = "gone" /\ handles[last.h].base = None
    /\ \A m \in {None} \cup Mem : nalloc[m] = 0 /\ nrel[m] = 0
    /\ \A s \in Streams : queue[s] = <<>>

(* ========================= order on a stream =========================== *)
Drained == \A s \in Streams : queue[s] = <<>>

\* C14: commands issued through one handle on one stream take effect in the
\* order issued: once zero() (or any other fill), then one(), then
\* update_host() have been issued and the stream has drained, every element
\* of the host mirror is the 1 of the handle's type, the last fill issued
\* before the update_host.
C14_InOrder ==
    (calls = 3 /\ Drained) =>
        \A h \in Live :
            handles[h].dtype \in Known =>
                host[handles[h].array] =
                    Fill(handles[h].size, Identity("one", handles[h].dtype))

\* the program has run on a complex handle of three elements
C14_Witness ==
    /\ calls = 3 /\ Drained
    /\ last.op = "exec" /\ last.cmd.k = "d2h" /\ last.err = "none"
    /\ \E h \in Live :
          /\ handles[h].dtype = numpy_dtype("complex") /\ handles[h].size = 3
          /\ host[handles[h].array] = Fill(3, Scalar("complex", 1))

FillStep ==
    last'.op = "fill" =>
        LET a == handles[last'.h]
            value == last'.other.val
        IN
        IF numpy_dtype(value.ty) # a.dtype THEN last'.err # "none"
        ELSE /\ last'.err = "none"
             /\ last'.ret = last'.h
             /\ queue' = Enqueue(queue, a.stream,
                                 Cmd("fill", a.array, None, None, value, 0, 0,
                                     <<a.size>>))
             /\ UNCHANGED <<handles, host, dev, nalloc, nrel>>

\* a host array changes only when a device-to-host copy of it is executed
HostKept ==
    \A m \in Mem :
        (host[m] # <<>> /\ host'[m] # host[m]) =>
            /\ last'.op = "exec"
            /\ last'.cmd.k = "d2h" /\ last'.cmd.x = m

\* C15: fill(value) with a value of the handle's element type enqueues one
\* fill command over all size elements on the handle's stream and returns
\* the handle; the host mirror keeps its contents until an update_host
\* issued later is executed.
C15_FillFrame == [][FillStep /\ HostKept]_vars

\* the fill has been executed on the device and the host array is as before
C15_Witness ==
    /\ last.op = "exec" /\ last.cmd.k = "fill" /\ last.err = "none"
    /\ last.cmd.val \in OrderValues
    /\ dev[last.cmd.x].data = Fill(Len(dev[last.cmd.x].data), last.cmd.val)
    /\ host[last.cmd.x] = Fill(Len(dev[last.cmd.x].data), Junk)

\* C16: update_device() enqueues one host-to-device copy of the host mirror
\* on the bound stream and returns the handle itself, as update_host() does
\* after enqueuing the device-to-host copy.
C16_UpdateReturnsHandle ==
    (last.op \in {"update_device", "update_host"} /\ last.err = "none") =>
        /\ Issued(last.h).k = (IF last.op = "update_device" THEN "h2d" ELSE "d2h")
        /\ Issued(last.h).x = handles[last.h].array
        /\ last.ret = last.h

(* ============================== fillfrom =============================== *)
FillfromStep ==
    last'.op = "fillfrom" =>
        LET a == handles[last'.h]
            arr == last'.other
        IN
        IF arr.kind = "ndarray" /\ arr.shape = a.shape
        THEN /\ last'.err = "none"
             /\ last'.ret = last'.h
             \* the host mirror holds the contents of arr
             /\ host' = [host EXCEPT ![a.array] = Fill(a.size, Foreign)]
             /\ queue' = Enqueue(queue, a.stream,
                                 Cmd("h2d", a.array, None, None, Junk, 0, 0, NoEnc))
             /\ UNCHANGED <<handles, dev, nalloc, nrel>>
        ELSE /\ last'.err = "TypeError"
             /\ UNCHANGED <<handles, host, dev, queue, nalloc, nrel>>

\* C17: fillfrom(arr) with a numpy array of the handle's shape copies arr
\* into the host mirror, then enqueues one host-to-device copy on the
\* handle's stream and returns the handle; with anything that is not a numpy
\* array, or an array of another shape, it raises TypeError, leaves the host
\* mirror as it was and enqueues nothing.
C17_Fillfrom == [][FillfromStep]_vars

\* the copy of an accepted array has reached the device
C17_Witness ==
    /\ last.op = "exec" /\ last.cmd.k = "h2d" /\ last.err = "none"
    /\ host[last.cmd.x] = Fill(Len(host[last.cmd.x]), Foreign)
    /\ dev[last.cmd.x].data = host[last.cmd.x]
    /\ Len(host[last.cmd.x]) > 0

(* ========================== dispatch encoding ========================== *)
EncodingStep ==
    last'.op \in Operators =>
        LET a == handles[last'.h]
            other == last'.other
            q == queue'[a.stream]
        IN
        IF ~Valid(a, other)
        THEN /\ last'.err # "none"
             /\ queue' = queue
        ELSE /\ last'.err = "none"
             /\ q # <<>>
             /\ queue' = Enqueue(queue, a.stream, q[Len(q)])
             /\ q[Len(q)].k = last'.op
             /\ q[Len(q)].enc =
                   \* element count, left stride, right stride, result stride
                   <<a.size, 1,
                     IF other.kind \in {"handle", "ndarray"} THEN 1 ELSE 0,
                     1>>

\* C18: for each binary operator and accepted right operand the kernel gets
\* element count self.size, left and result stride 1, right stride 1 for a
\* handle or numpy array of the shape and type of self and 0 for a scalar of
\* the type of self; an operand of another shape or type is rejected, not
\* encoded.
C18_DispatchEncoding == [][EncodingStep]_vars

\* a power with a scalar exponent was dispatched with right stride 0
C18_Witness ==
    /\ last.op = "pow" /\ last.err = "none" /\ last.other.kind = "scalar"
    /\ Issued(last.h).k = "pow"
    /\ Issued(last.h).enc = <<handles[last.h].size, 1, 0, 1>>

(* ================================ abs ================================== *)
AbsStep ==
    last'.op = "abs" =>
        LET a == handles[last'.h] IN
        /\ last'.err = "none"
        /\ FromStreamStep(a, last'.ret, "abs",
                          IF a.dtype = numpy_dtype("complex")
                          THEN numpy_dtype("float") ELSE a.dtype)

\* C19: abs(h) returns a newly allocated handle of the shape of h, of the
\* real floating type when h is complex and of h's own type otherwise,
\* enqueues one absolute-value kernel on h's stream and leaves h unchanged.
C19_AbsResultType == [][AbsStep]_vars

\* the absolute value of a complex handle is a float handle
C19_Witness ==
    /\ last.op = "abs" /\ last.err = "none"
    /\ handles[last.h].dtype = numpy_dtype("complex")
    /\ last.ret \in Live /\ last.ret # last.h
    /\ handles[last.ret].dtype = numpy_dtype("float")
    /\ handles[last.ret].shape = handles[last.h].shape
    /\ Issued(last.h).k = "abs"

(* =========================== slice assignment ========================== *)
\* the elements (counted from 0) of a buffer of n elements that command c
\* writes
Written(c, n) ==
    CASE c.k = "setslice" -> {k \in 0 .. (n - 1) : c.lb <= k /\ k < c.ub}
      [] c.k = "fill" -> {k \in 0 .. (n - 1) : k < c.enc[1]}
      [] OTHER -> {}
Clamp(i, n) == IF i < 0 THEN 0 ELSE Min(i, n)

SliceFrameStep ==
    \A h \in Hid, i \in Indices, j \in Indices, src \in Sources :
        (__setslice__(h, i, j, src) /\ last'.err = "none") =>
            LET a == handles[h]
                q == queue'[a.stream]
            IN
            /\ q # <<>>
            /\ q[Len(q)].x = a.array
            /\ Written(q[Len(q)], a.size) \subseteq
                  {k \in 0 .. (a.size - 1) : Clamp(i, a.size) <= k /\ k < Clamp(j, a.size)}

\* C20: setslice(i, j, source) changes no element of the handle's device
\* buffer outside the clamped range [lb, ub), whether the source is another
\* handle, a numpy array or a scalar.
C20_SliceFrame == [][SliceFrameStep]_vars

====
